---- MODULE Spec2Model ----
(***************************************************************************)
(* The `cut' loadable builtin (builtins/src/cut.c): the selector-list      *)
(* parser (parse_ranges, in_range), the two line projectors (cut_bytes,    *)
(* cut_fields) and the driver (cut_builtin).                               *)
(*                                                                         *)
(* Bytes and selector characters are one-character strings; a C string or  *)
(* a stream is a sequence of them.  Allocation failure (malloc, strdup,    *)
(* getline returning NULL/-1 for lack of memory) is not modelled.          *)
(***************************************************************************)
EXTENDS Integers, Sequences, FiniteSets, TLC

(***************************************************************************)
(* Bounds of the model.                                                    *)
(***************************************************************************)
MaxListLen  == 4   \* longest enumerated selector list, in characters
MaxInputLen == 4   \* longest enumerated input stream, in bytes
MaxOpts     == 3   \* longest enumerated option sequence
MaxFiles    == 2   \* longest enumerated FILE operand list

(***************************************************************************)
(* Program constants.                                                      *)
(***************************************************************************)
INT_MAX           == 2147483647
EXECUTION_SUCCESS == 0
EXECUTION_FAILURE == 1
EX_USAGE          == 258

LF    == "\n"
NUL   == "NUL"      \* the byte '\0'
TAB   == "\t"
COMMA == ","
DASH  == "-"

NoMode == "0"       \* int mode = 0
NULL   == "NULL"    \* a FILE* that is not open
STDIN  == "stdin"   \* the FILE* stdin
Running == -1       \* cut_builtin has not returned yet

Digit == {"0", "1", "2", "3", "4", "5", "6", "7", "8", "9"}
DigitVal == [c \in Digit |->
               CASE c = "0" -> 0 [] c = "1" -> 1 [] c = "2" -> 2 [] c = "3" -> 3
                 [] c = "4" -> 4 [] c = "5" -> 5 [] c = "6" -> 6 [] c = "7" -> 7
                 [] c = "8" -> 8 [] c = "9" -> 9]

(***************************************************************************)
(* libc helpers, on sequences of characters.                               *)
(***************************************************************************)
\* all sequences over S of length at most n
Strings(S, n) == UNION {[1..k -> S] : k \in 0..n}

\* strchr(s, c): the index of the first c in s, 0 for a NULL result
strchr(s, c) ==
    IF \E i \in 1..Len(s) : s[i] = c
    THEN CHOOSE i \in 1..Len(s) : s[i] = c /\ \A j \in 1..(i-1) : s[j] # c
    ELSE 0

\* the C string held by a buffer: its bytes before the first '\0'
CStr(buf) ==
    IF strchr(buf, NUL) = 0 THEN buf ELSE SubSeq(buf, 1, strchr(buf, NUL) - 1)

\* the successive results of strtok(s, d) / strtok_r(s, d, &save) for a
\* one-character delimiter string d: delimiters before a token are skipped,
\* a token runs to the next delimiter or the end of the string
RECURSIVE strtok_from(_, _, _, _)
strtok_from(s, d, i, cur) ==
    IF i > Len(s) THEN (IF cur = <<>> THEN <<>> ELSE <<cur>>)
    ELSE IF s[i] = d
         THEN (IF cur = <<>> THEN <<>> ELSE <<cur>>) \o strtok_from(s, d, i + 1, <<>>)
         ELSE strtok_from(s, d, i + 1, Append(cur, s[i]))

strtok(s, d) == strtok_from(s, d, 1, <<>>)

\* atoi(s): optional sign, then the leading decimal digits; 0 when there are
\* none.  (No enumerated string holds white space or more than 9 digits.)
RECURSIVE atoi_digits(_, _, _)
atoi_digits(s, i, acc) ==
    IF i > Len(s) \/ s[i] \notin Digit THEN acc
    ELSE atoi_digits(s, i + 1, acc * 10 + DigitVal[s[i]])

atoi(s) ==
    IF s # <<>> /\ s[1] = DASH THEN 0 - atoi_digits(s, 2, 0)
    ELSE IF s # <<>> /\ s[1] = "+" THEN atoi_digits(s, 2, 0)
    ELSE atoi_digits(s, 1, 0)

(***************************************************************************)
(* parse_ranges and in_range.                                              *)
(***************************************************************************)
\* the loop body without the case of a token ending in its dash
parse_token_noopen(token) ==
    LET dash == strchr(token, DASH)
        n    == Len(token)
    IN  IF dash = 0
        THEN [start |-> atoi(token), end |-> atoi(token)]
        ELSE IF dash = 1
        THEN [start |-> 1, end |-> atoi(SubSeq(token, 2, n))]
        ELSE [start |-> atoi(SubSeq(token, 1, dash - 1)),
              end   |-> atoi(SubSeq(token, dash + 1, n))]

\* the body of the while (token) loop: the Range built for one token
parse_token(token) ==
    LET dash == strchr(token, DASH)
        n    == Len(token)
    IN  IF dash = 0
        THEN [start |-> atoi(token), end |-> atoi(token)]
        ELSE IF dash = 1
        THEN [start |-> 1, end |-> atoi(SubSeq(token, 2, n))]
        ELSE IF dash = n
        THEN [start |-> atoi(SubSeq(token, 1, dash - 1)), end |-> INT_MAX]
        ELSE [start |-> atoi(SubSeq(token, 1, dash - 1)),
              end   |-> atoi(SubSeq(token, dash + 1, n))]

\* the list parse_ranges returns, in token order; <<>> is the NULL head
parse_ranges(list_str) ==
    LET toks == strtok(list_str, COMMA)
    IN  [i \in 1..Len(toks) |-> parse_token(toks[i])]

in_range(rs, pos) ==
    \E i \in 1..Len(rs) : pos >= rs[i].start /\ pos <= rs[i].end

(***************************************************************************)
(* One iteration of the getline loops.                                     *)
(***************************************************************************)
\* the number of bytes getline() hands back from the unread rest of a
\* stream: through the first '\n', or everything if there is none
getline(rest) == IF strchr(rest, LF) = 0 THEN Len(rest) ELSE strchr(rest, LF)

\* cut_bytes, the for loop: the bytes put for one line
RECURSIVE bytes_scan(_, _, _)
bytes_scan(ln, rs, i) ==
    IF i > Len(ln) \/ ln[i] = LF \/ ln[i] = NUL THEN <<>>
    ELSE (IF in_range(rs, i) THEN <<ln[i]>> ELSE <<>>) \o bytes_scan(ln, rs, i + 1)

\* the for loop with pos counted from 0
RECURSIVE bytes_scan_from0(_, _, _)
bytes_scan_from0(ln, rs, i) ==
    IF i > Len(ln) \/ ln[i] = LF \/ ln[i] = NUL THEN <<>>
    ELSE (IF in_range(rs, i - 1) THEN <<ln[i]>> ELSE <<>>)
           \o bytes_scan_from0(ln, rs, i + 1)

cut_bytes_line_from0(ln, rs, ld) == bytes_scan_from0(ln, rs, 1) \o <<ld>>

\* the iteration ending the line only when it put a byte, as cut_fields does
cut_bytes_line_quiet(ln, rs, ld) ==
    IF bytes_scan(ln, rs, 1) = <<>> THEN <<>> ELSE bytes_scan(ln, rs, 1) \o <<ld>>

\* cut_bytes, one iteration of the while loop: everything written for a line
cut_bytes_line(ln, rs, ld) == bytes_scan(ln, rs, 1) \o <<ld>>

\* cut_fields: the line buffer after the trailing '\n' is overwritten, read
\* as a C string
fields_text(ln) ==
    CStr(IF Len(ln) > 0 /\ ln[Len(ln)] = LF THEN SubSeq(ln, 1, Len(ln) - 1) ELSE ln)

\* cut_fields: the tokens strtok_r walks through for a line; <<>> for a line
\* in which strchr finds no delimiter (the loop is not entered)
fields_tokens(ln, delim) ==
    IF strchr(fields_text(ln), delim[1]) = 0 THEN <<>>
    ELSE strtok(fields_text(ln), delim[1])

\* cut_fields, the while (token) loop: what it prints from field number
\* `field' on, first_output telling whether something was printed before
RECURSIVE fields_scan(_, _, _, _, _)
fields_scan(toks, rs, delim, field, first_output) ==
    IF field > Len(toks) THEN <<>>
    ELSE IF in_range(rs, field)
         THEN (IF first_output THEN <<>> ELSE delim) \o toks[field]
                 \o fields_scan(toks, rs, delim, field + 1, FALSE)
         ELSE fields_scan(toks, rs, delim, field + 1, first_output)

\* the iteration with the test of suppress_no_delim left out
cut_fields_line_nosuppress(ln, rs, delim, suppress, ld) ==
    IF strchr(fields_text(ln), delim[1]) = 0
    THEN fields_text(ln) \o <<ld>>
    ELSE LET toks    == strtok(fields_text(ln), delim[1])
             printed == fields_scan(toks, rs, delim, 1, TRUE)
             first_output == \A f \in 1..Len(toks) : ~in_range(rs, f)
         IN  IF first_output THEN printed ELSE printed \o <<ld>>

\* cut_fields, one iteration of the while loop: everything written for a line
cut_fields_line(ln, rs, delim, suppress, ld) ==
    IF strchr(fields_text(ln), delim[1]) = 0
    THEN (IF suppress THEN <<>> ELSE fields_text(ln) \o <<ld>>)
    ELSE LET toks    == strtok(fields_text(ln), delim[1])
             printed == fields_scan(toks, rs, delim, 1, TRUE)
             first_output == \A f \in 1..Len(toks) : ~in_range(rs, f)
         IN  IF first_output THEN printed ELSE printed \o <<ld>>

(***************************************************************************)
(* State.                                                                  *)
(***************************************************************************)
VARIABLES
    opts,        \* the options internal_getopt yields, in order (immutable)
    operands,    \* the FILE operands, loptend (immutable)
    fs,          \* the file system: name -> [readable, data] (immutable)
    stdin_data,  \* everything standard input will deliver (immutable)
    optind,      \* index of the next option
    list,        \* index of the current operand; Len(operands)+1 is NULL
    mode, range_list, delimiter, suppress_no_delim, line_delim, status, ranges,
    fp,          \* the open stream: NULL, STDIN or a file name
    fpos,        \* bytes already read from an open file
    stdin_pos,   \* bytes already read from standard input
    line,        \* the line getline handed to the latest iteration
    tokens,      \* the tokens the latest cut_fields iteration walked through
    wrote,       \* the bytes the latest iteration wrote
    out,         \* standard output
    err,         \* standard error: the builtin_error / builtin_usage messages
    rc,          \* the value cut_builtin returned, Running before that
    pc

vars == <<opts, operands, fs, stdin_data, optind, list, mode, range_list,
          delimiter, suppress_no_delim, line_delim, status, ranges, fp, fpos,
          stdin_pos, line, tokens, wrote, out, err, rc, pc>>

argv == <<opts, operands, fs, stdin_data>>
settings == <<mode, range_list, delimiter, suppress_no_delim, line_delim>>
perline == <<line, tokens, wrote>>

\* the locals of cut_builtin as initialised at lines 200-207
Locals ==
    /\ optind = 1
    /\ list = 1
    /\ mode = NoMode
    /\ range_list = <<>>
    /\ delimiter = <<TAB>>
    /\ suppress_no_delim = FALSE
    /\ line_delim = LF
    /\ status = EXECUTION_SUCCESS
    /\ ranges = <<>>
    /\ fp = NULL
    /\ fpos = 0
    /\ stdin_pos = 0
    /\ line = <<>>
    /\ tokens = <<>>
    /\ wrote = <<>>
    /\ out = <<>>
    /\ err = <<>>
    /\ rc = Running
    /\ pc = "getopt"

(***************************************************************************)
(* cut_builtin.                                                            *)
(***************************************************************************)
Opt(o, a) == [opt |-> o, arg |-> a]

MsgOneList  == "only one type of list may be specified"
MsgDelim    == "the delimiter must be a single character"
MsgNoList   == "you must specify a list of bytes, characters, or fields"
MsgBadList  == "invalid range list"
MsgUsage    == "usage"     \* what builtin_usage() prints
NoError     == ""

\* the switch without the check of a -d argument's length
getopt_error_anydelim(o, m) ==
    IF o.opt \in {"b", "c", "f"}
    THEN (IF m # NoMode THEN MsgOneList ELSE NoError)
    ELSE IF o.opt \in {"d", "s", "z"} THEN NoError
    ELSE MsgUsage

\* the switch on opt, lines 211-245: the message of the case that returns
\* EX_USAGE for option o when the mode so far is m, NoError for a case that
\* breaks
getopt_error(o, m) ==
    IF o.opt \in {"b", "c", "f"}
    THEN (IF m # NoMode THEN MsgOneList ELSE NoError)
    ELSE IF o.opt = "d"
    THEN (IF Len(o.arg) # 1 THEN MsgDelim ELSE NoError)
    ELSE IF o.opt \in {"s", "z"} THEN NoError
    ELSE MsgUsage

\* one iteration of the internal_getopt loop
GetOpt ==
    /\ pc = "getopt"
    /\ optind <= Len(opts)
    /\ LET o == opts[optind]
           e == getopt_error(o, mode)
           islist == o.opt \in {"b", "c", "f"} /\ e = NoError
       IN  /\ optind' = optind + 1
           /\ mode' = IF islist THEN o.opt ELSE mode
           /\ range_list' = IF islist THEN o.arg ELSE range_list
           /\ delimiter' = IF o.opt = "d" THEN o.arg ELSE delimiter
           /\ suppress_no_delim' = IF o.opt = "s" THEN TRUE ELSE suppress_no_delim
           /\ line_delim' = IF o.opt = "z" THEN NUL ELSE line_delim
           /\ err' = IF e # NoError THEN Append(err, e) ELSE err
           /\ rc' = IF e # NoError THEN EX_USAGE ELSE rc
           /\ pc' = IF e # NoError THEN "done" ELSE "getopt"
    /\ UNCHANGED <<argv, list, status, ranges, fp, fpos, stdin_pos, perline, out>>

\* lines 247-265: after the options: the mode check, parse_ranges, and the
\* choice between standard input and the operand loop
EndOpts ==
    /\ pc = "getopt"
    /\ optind > Len(opts)
    /\ IF mode = NoMode
       THEN /\ err' = Append(err, MsgNoList)
            /\ rc' = EX_USAGE
            /\ pc' = "done"
            /\ UNCHANGED <<ranges, fp>>
       ELSE /\ ranges' = parse_ranges(CStr(range_list))
            /\ IF ranges' = <<>>
               THEN /\ err' = Append(err, MsgBadList)
                    /\ rc' = EX_USAGE
                    /\ pc' = "done"
                    /\ UNCHANGED fp
               ELSE /\ UNCHANGED <<err, rc>>
                    /\ IF operands = <<>>
                       THEN /\ fp' = STDIN
                            /\ pc' = IF mode = "f" THEN "fields" ELSE "bytes"
                       ELSE /\ fp' = fp
                            /\ pc' = "sources"
    /\ UNCHANGED <<argv, optind, list, settings, status, fpos, stdin_pos, perline, out>>

\* lines 267-287: the head of one iteration of while (list)
OpenNext ==
    /\ pc = "sources"
    /\ list <= Len(operands)
    /\ LET filename == operands[list]
       IN  IF filename = "-"
           THEN /\ fp' = STDIN
                /\ pc' = IF mode = "f" THEN "fields" ELSE "bytes"
                /\ UNCHANGED <<fpos, err, status, list>>
           ELSE IF ~fs[filename].readable
           THEN /\ err' = Append(err, filename)
                /\ status' = EXECUTION_FAILURE
                /\ list' = list + 1
                /\ UNCHANGED <<fp, fpos, pc>>
           ELSE /\ fp' = filename
                /\ fpos' = 0
                /\ pc' = IF mode = "f" THEN "fields" ELSE "bytes"
                /\ UNCHANGED <<err, status, list>>
    /\ UNCHANGED <<argv, optind, settings, ranges, stdin_pos, perline, out, rc>>

\* the unread rest of the open stream
Rest == IF fp = STDIN
        THEN SubSeq(stdin_data, stdin_pos + 1, Len(stdin_data))
        ELSE SubSeq(fs[fp].data, fpos + 1, Len(fs[fp].data))

\* getline succeeded: the stream advances past the line
Advance(n) ==
    /\ line' = SubSeq(Rest, 1, n)
    /\ IF fp = STDIN
       THEN stdin_pos' = stdin_pos + n /\ UNCHANGED fpos
       ELSE fpos' = fpos + n /\ UNCHANGED stdin_pos

\* cut_bytes: one iteration of while (getline != -1)
CutBytesLine ==
    /\ pc = "bytes"
    /\ Rest # <<>>
    /\ Advance(getline(Rest))
    /\ wrote' = cut_bytes_line(line', ranges, line_delim)
    /\ out' = out \o wrote'
    /\ UNCHANGED <<argv, optind, list, settings, status, ranges, fp, tokens, err, rc, pc>>

\* cut_fields: one iteration of while (getline != -1)
CutFieldsLine ==
    /\ pc = "fields"
    /\ Rest # <<>>
    /\ Advance(getline(Rest))
    /\ tokens' = fields_tokens(line', delimiter)
    /\ wrote' = cut_fields_line(line', ranges, delimiter, suppress_no_delim, line_delim)
    /\ out' = out \o wrote'
    /\ UNCHANGED <<argv, optind, list, settings, status, ranges, fp, err, rc, pc>>

\* the operand loop assigning what cut_bytes / cut_fields return, as the
\* standard-input call does
loop_status_assigned(args, st) == EXECUTION_SUCCESS

\* status once a stream is drained: with no operands the EXECUTION_SUCCESS
\* cut_bytes / cut_fields return is assigned to it (lines 262, 264); in the
\* operand loop the return value is dropped (lines 284, 286)
loop_status(args, st) == IF args = <<>> THEN EXECUTION_SUCCESS ELSE st

\* getline returned -1: cut_bytes / cut_fields return EXECUTION_SUCCESS; the
\* standard-input call (lines 261-265) assigns it to status, the operand loop
\* closes the file and moves to the next operand (lines 289-293)
EndOfFile ==
    /\ pc \in {"bytes", "fields"}
    /\ Rest = <<>>
    /\ status' = loop_status(operands, status)
    /\ list' = IF operands = <<>> THEN list ELSE list + 1
    /\ fp' = NULL
    /\ pc' = "sources"
    /\ UNCHANGED <<argv, optind, settings, ranges, fpos, stdin_pos, perline, out, err, rc>>

\* lines 297-298: free_ranges and return status
Return ==
    /\ pc = "sources"
    /\ list > Len(operands)
    /\ ranges' = <<>>
    /\ rc' = status
    /\ pc' = "done"
    /\ UNCHANGED <<argv, optind, list, settings, status, fp, fpos, stdin_pos, perline,
                   out, err>>

Next ==
    \/ GetOpt
    \/ EndOpts
    \/ OpenNext
    \/ CutBytesLine
    \/ CutFieldsLine
    \/ EndOfFile
    \/ Return

(***************************************************************************)
(* Invocations.                                                            *)
(***************************************************************************)
File(txt) == [readable |-> TRUE, data |-> txt]   \* a file fopen() can open
NoFile    == [readable |-> FALSE, data |-> <<>>]  \* a name fopen() fails for

SelChars == {"0", "1", "2", "3", DASH, COMMA, "x"}
Bytes    == {"a", "b", COMMA, LF, NUL}

ExampleList == <<"2", ",", "4", "-", "6", ",", "8", "-">>
ExampleText == <<"a", "b", ",", "c", "d", LF, ",", "a", LF, "b", "c", "d", "e", "f",
                 "g", "h", "i", "j">>

\* cut -d, (-b|-f) LIST A, for every selector list up to MaxListLen
InitList ==
    /\ \E sel \in Strings(SelChars, MaxListLen) \cup {ExampleList} :
       \E m \in {"b", "f"} :
          opts = <<Opt("d", <<COMMA>>), Opt(m, sel)>>
    /\ operands = <<"A">>
    /\ fs = [n \in {"A"} |-> File(ExampleText)]
    /\ stdin_data = <<>>
    /\ Locals

LineLists == {<<"1", "-">>, <<"2">>, <<"1", ",", "3">>, <<"3", ",", "1", "-", "2">>,
              <<"5">>, <<"2", "-", ",", "1", "-", "2">>}

\* cut [-z] [-s] -d, (-b|-f) LIST A, for every content of A up to MaxInputLen
InitLines ==
    /\ \E sel \in LineLists, m \in {"b", "f"}, z \in BOOLEAN, s \in BOOLEAN :
          /\ m = "b" => ~s
          /\ opts = (IF z THEN <<Opt("z", <<>>)>> ELSE <<>>)
                    \o (IF s THEN <<Opt("s", <<>>)>> ELSE <<>>)
                    \o <<Opt("d", <<COMMA>>), Opt(m, sel)>>
    /\ operands = <<"A">>
    /\ \E txt \in Strings(Bytes, MaxInputLen) \cup
                  {<<"a", ",", "b", ",", "c">>, <<"a", ",", ",", "c", LF>>,
                   <<"a", "b", NUL, "b", "a", LF, ",", "b">>} :
          fs = [n \in {"A"} |-> File(txt)]
    /\ stdin_data = <<>>
    /\ Locals

Options == {Opt("b", <<"1", "-">>), Opt("c", <<"2">>), Opt("f", <<"1", ",", "3">>),
            Opt("d", <<>>), Opt("d", <<COMMA>>), Opt("d", <<COMMA, COMMA>>),
            Opt("s", <<>>), Opt("z", <<>>), Opt("?", <<>>)}

\* any option sequence up to MaxOpts and any operand list up to MaxFiles over
\* `-', a readable file A and a name B that cannot be opened
Init ==
    /\ opts \in Strings(Options, MaxOpts)
    /\ operands \in Strings({"-", "A", "B"}, MaxFiles)
    /\ fs = [n \in {"A", "B"} |->
               IF n = "A" THEN File(<<"a", ",", "b", LF, "c", LF>>) ELSE NoFile]
    /\ stdin_data = <<"b", "a", ",", ",", "c", LF, "d">>
    /\ Locals

Spec      == Init /\ [][Next]_vars
SpecList  == InitList /\ [][Next]_vars
SpecLines == InitLines /\ [][Next]_vars

(***************************************************************************)
(* What the specification says, stated independently of the code above.    *)
(***************************************************************************)
\* the number of occurrences of c in s
Count(s, c) == Cardinality({i \in 1..Len(s) : s[i] = c})

\* a line without its trailing LF
Chomp(ln) == IF ln # <<>> /\ ln[Len(ln)] = LF THEN SubSeq(ln, 1, Len(ln) - 1) ELSE ln

\* a text up to its first NUL byte
UpToNul(s) == SubSeq(s, 1, Cardinality({i \in 1..Len(s) : \A j \in 1..i : s[j] # NUL}))

\* s split on every occurrence of d: Count(s, d) + 1 pieces, empty ones kept
RECURSIVE SplitAll(_, _)
SplitAll(s, d) ==
    IF Count(s, d) = 0 THEN <<s>>
    ELSE LET k == CHOOSE i \in 1..Len(s) : s[i] = d /\ Count(SubSeq(s, 1, i), d) = 1
         IN  <<SubSeq(s, 1, k - 1)>> \o SplitAll(SubSeq(s, k + 1, Len(s)), d)

\* the pieces joined with one d between neighbours
RECURSIVE JoinWith(_, _)
JoinWith(ps, d) ==
    IF ps = <<>> THEN <<>>
    ELSE IF Len(ps) = 1 THEN ps[1]
    ELSE ps[1] \o <<d>> \o JoinWith(Tail(ps), d)

\* the elements of s at the positions p with contains(p), in order
RECURSIVE Pick(_, _)
Pick(s, rs) ==
    IF s = <<>> THEN <<>>
    ELSE Pick(SubSeq(s, 1, Len(s) - 1), rs)
           \o (IF in_range(rs, Len(s)) THEN <<s[Len(s)]>> ELSE <<>>)

\* the value of a string of decimal digits
RECURSIVE Decimal(_)
Decimal(t) ==
    IF t = <<>> THEN 0
    ELSE 10 * Decimal(SubSeq(t, 1, Len(t) - 1)) + DigitVal[t[Len(t)]]

IsNumber(t) == t # <<>> /\ \A i \in 1..Len(t) : t[i] \in Digit

\* the token grammar  N | N- | -M | N-M  with 1 <= N <= M: the interval of a
\* token, [ok |-> FALSE] for a token outside the grammar
NotAToken == [ok |-> FALSE, lo |-> 0, hi |-> 0, open |-> FALSE]
TokenInterval(t) ==
    LET ps == SplitAll(t, DASH)
    IN  IF Len(ps) = 1 /\ IsNumber(t) /\ Decimal(t) >= 1
        THEN [ok |-> TRUE, lo |-> Decimal(t), hi |-> Decimal(t), open |-> FALSE]
        ELSE IF Len(ps) = 2 /\ IsNumber(ps[1]) /\ ps[2] = <<>> /\ Decimal(ps[1]) >= 1
        THEN [ok |-> TRUE, lo |-> Decimal(ps[1]), hi |-> 0, open |-> TRUE]
        ELSE IF Len(ps) = 2 /\ ps[1] = <<>> /\ IsNumber(ps[2]) /\ Decimal(ps[2]) >= 1
        THEN [ok |-> TRUE, lo |-> 1, hi |-> Decimal(ps[2]), open |-> FALSE]
        ELSE IF /\ Len(ps) = 2 /\ IsNumber(ps[1]) /\ IsNumber(ps[2])
                /\ 1 <= Decimal(ps[1]) /\ Decimal(ps[1]) <= Decimal(ps[2])
        THEN [ok |-> TRUE, lo |-> Decimal(ps[1]), hi |-> Decimal(ps[2]), open |-> FALSE]
        ELSE NotAToken

Intervals(sel) == LET ts == SplitAll(sel, COMMA) IN [i \in 1..Len(ts) |-> TokenInterval(ts[i])]

InGrammar(sel) == \A i \in 1..Len(Intervals(sel)) : Intervals(sel)[i].ok

Covers(iv, p) == iv.lo <= p /\ (iv.open \/ p <= iv.hi)

\* the positions membership is probed at: the first ones, and the ends of
\* every stored Range with their neighbours, INT_MAX included
MaxPos == 12
Probes == (0..MaxPos) \cup {INT_MAX}
          \cup UNION {{ranges[i].start - 1, ranges[i].start, ranges[i].end,
                       IF ranges[i].end < INT_MAX THEN ranges[i].end + 1 ELSE INT_MAX}
                      : i \in 1..Len(ranges)}

\* the RangeSet is built and not yet freed
Parsed == pc \in {"sources", "bytes", "fields"}

\* C5: for a selector list of the grammar N | N- | -M | N-M (1 <= N <= M),
\* in_range(p) after parse_ranges is true iff p lies in the inclusive interval
\* of at least one token.
Thm_C5 ==
    (Parsed /\ InGrammar(range_list)) =>
        \A p \in Probes :
            in_range(ranges, p) <=>
                \E i \in 1..Len(Intervals(range_list)) : Covers(Intervals(range_list)[i], p)

\* C5 witness: `2,4-6,8-' is parsed and selects exactly 2,4,5,6,8,9,10,... 
Wit_C5 ==
    /\ Parsed
    /\ range_list = ExampleList
    /\ {p \in 0..MaxPos : in_range(ranges, p)} = {2, 4, 5, 6} \cup (8..MaxPos)
    /\ in_range(ranges, INT_MAX)

\* a selector list that is empty or holds an empty token between commas
Malformed(sel) == \E i \in 1..Len(SplitAll(sel, COMMA)) : SplitAll(sel, COMMA)[i] = <<>>

\* C9: the empty selector list and every list with an empty token (`1,,3',
\* a leading or a trailing comma) is a parse error: cut returns the usage
\* status and writes nothing; a RangeSet is built only when every token is
\* non-empty.
Cex_C9 ==
    (mode # NoMode /\ optind > Len(opts) /\ Malformed(range_list)) =>
        /\ ~Parsed
        /\ pc = "done" => (rc = EX_USAGE /\ out = <<>>)

(***************************************************************************)
(* Per-line claims.                                                        *)
(***************************************************************************)
\* a line has gone through an iteration of cut_fields / of cut_bytes, and
\* the RangeSet it was tested against is still there
FieldLine == mode = "f" /\ pc \in {"fields", "sources"} /\ line # <<>>
ByteLine  == mode \in {"b", "c"} /\ pc \in {"bytes", "sources"} /\ line # <<>>

\* the fields of the line as the specification numbers them
SpecFields == SplitAll(Chomp(line), delimiter[1])

\* what was written for the latest line, without the terminator ending it
Content == IF wrote # <<>> /\ wrote[Len(wrote)] = line_delim
           THEN SubSeq(wrote, 1, Len(wrote) - 1) ELSE wrote

\* C1: in field mode a line with k occurrences of the delimiter is split
\* into exactly k+1 fields numbered 1..k+1 in order of appearance, adjacent,
\* leading and trailing delimiters giving empty fields; the number tested for
\* each piece is its positional index.  (Stated for lines without NUL bytes.)
Cex_C1 ==
    (FieldLine /\ Count(line, NUL) = 0 /\ Count(Chomp(line), delimiter[1]) > 0) =>
        /\ Len(tokens) = Count(Chomp(line), delimiter[1]) + 1
        /\ tokens = SpecFields

\* C2: in field mode, for a line containing the delimiter, the content
\* written is the selected fields (1-based position in contains) in field
\* order with exactly one delimiter between consecutive selected fields.
\* (Stated for lines without NUL bytes.)
Cex_C2 ==
    (FieldLine /\ Count(line, NUL) = 0 /\ Count(Chomp(line), delimiter[1]) > 0) =>
        Content = JoinWith(Pick(SpecFields, ranges), delimiter[1])

\* C10: in field mode, for a line containing the delimiter, nothing at all
\* is written when no field position is selected, and a terminator is
\* written iff at least one field is selected.  (Stated for lines without
\* NUL bytes.)
Cex_C10 ==
    (FieldLine /\ Count(line, NUL) = 0 /\ Count(Chomp(line), delimiter[1]) > 0) =>
        LET selected == \E f \in 1..Len(SpecFields) : in_range(ranges, f)
        IN  /\ ~selected => wrote = <<>>
            /\ selected <=> (wrote # <<>> /\ wrote[Len(wrote)] = line_delim)

NumLines(s) == Count(s, LF) + (IF s # <<>> /\ s[Len(s)] # LF THEN 1 ELSE 0)

\* the lines of the readable files among the first i operands
RECURSIVE ClosedLines(_)
ClosedLines(i) ==
    IF i = 0 THEN 0
    ELSE ClosedLines(i - 1)
           + (IF operands[i] # "-" /\ fs[operands[i]].readable
              THEN NumLines(fs[operands[i]].data) ELSE 0)

\* the input lines read so far: from standard input, from the operands
\* already closed, and from the file now open
LinesRead ==
    NumLines(SubSeq(stdin_data, 1, stdin_pos))
    + ClosedLines(list - 1)
    + (IF fp \notin {NULL, STDIN} THEN NumLines(SubSeq(fs[fp].data, 1, fpos)) ELSE 0)

RECURSIVE Projected(_)
Projected(data) ==
    IF data = <<>> THEN <<>>
    ELSE LET n  == getline(data)
             ln == SubSeq(data, 1, n)
             rs == parse_ranges(CStr(range_list))
         IN  (IF mode = "f"
              THEN cut_fields_line(ln, rs, delimiter, suppress_no_delim, line_delim)
              ELSE cut_bytes_line(ln, rs, line_delim))
             \o Projected(SubSeq(data, n + 1, Len(data)))

\* operand i cannot be opened
OpenFails(i) == operands[i] # "-" /\ ~fs[operands[i]].readable

\* what operand i contributes: a file its projection, `-' the projection of
\* standard input the first time it is named (it is at end of file after)
SourceOut(i) ==
    IF operands[i] = "-"
    THEN (IF \E j \in 1..(i - 1) : operands[j] = "-" THEN <<>> ELSE Projected(stdin_data))
    ELSE IF OpenFails(i) THEN <<>> ELSE Projected(fs[operands[i]].data)

RECURSIVE OutUpTo(_)
OutUpTo(i) == IF i = 0 THEN <<>> ELSE OutUpTo(i - 1) \o SourceOut(i)

\* C6: a source that fails to open does not stop processing: every source
\* that opens has its full projected output written, before or after the
\* failing one, and the exit status is failure iff at least one named source
\* failed to open, success otherwise.
Thm_C6 ==
    (pc = "done" /\ rc # EX_USAGE) =>
        /\ out = IF operands = <<>> THEN Projected(stdin_data)
                 ELSE OutUpTo(Len(operands))
        /\ rc = IF \E i \in 1..Len(operands) : OpenFails(i)
                THEN EXECUTION_FAILURE ELSE EXECUTION_SUCCESS

\* C6 witness: the unreadable B comes first, A after it is still projected
\* and the status stays failure.
Wit_C6 ==
    /\ pc = "done"
    /\ operands = <<"B", "A">>
    /\ mode = "f"
    /\ delimiter = <<COMMA>>
    /\ rc = EXECUTION_FAILURE
    /\ out = <<"a", LF, "c", LF>>

\* the options name more than one list, or none, or a -d argument that is
\* not one character long
ListFlags == {i \in 1..Len(opts) : opts[i].opt \in {"b", "c", "f"}}
BadDelim  == \E i \in 1..Len(opts) : opts[i].opt = "d" /\ Len(opts[i].arg) # 1

NothingDone ==
    /\ out = <<>> /\ line = <<>> /\ fp = NULL
    /\ stdin_pos = 0 /\ fpos = 0 /\ list = 1

\* C7: with more than one of -b/-c/-f (the same one twice included), with
\* none, or with a -d argument not exactly one character long, cut_builtin
\* returns the usage status without reading a source or writing output; with
\* exactly one list and a one-character or default delimiter none of these
\* three errors is raised.
Thm_C7 ==
    /\ (Cardinality(ListFlags) # 1 \/ BadDelim) =>
          /\ pc \in {"getopt", "done"}
          /\ NothingDone
          /\ pc = "done" => rc = EX_USAGE
    /\ (Cardinality(ListFlags) = 1 /\ ~BadDelim) =>
          \A i \in 1..Len(err) : err[i] \notin {MsgOneList, MsgDelim, MsgNoList}

\* C7 witness: -f LIST -d ,, FILE returns the usage status for the
\* two-character delimiter, with nothing read or written.
Wit_C7 ==
    /\ pc = "done"
    /\ Len(opts) = 2 /\ opts[1].opt = "f" /\ opts[2] = Opt("d", <<COMMA, COMMA>>)
    /\ operands = <<"A">>
    /\ rc = EX_USAGE
    /\ err = <<MsgDelim>>
    /\ NothingDone

(***************************************************************************)
(* The Range invariant.                                                    *)
(***************************************************************************)
\* C11: every Range of the RangeSet parse_ranges returns, for any selector
\* string it accepts (`0', `5-3', `-0' and non-numeric text included), has
\* start >= 1 and start <= end, an open end being INT_MAX.
Cex_C11 ==
    Parsed => \A i \in 1..Len(ranges) :
                  /\ ranges[i].start >= 1
                  /\ ranges[i].start <= ranges[i].end
                  /\ ranges[i].end <= INT_MAX

\* the second half of C11, which the code does satisfy: once built, the
\* RangeSet is changed by no iteration of cut_bytes or cut_fields, nor by
\* in_range; only free_ranges at the return discards it.
RangesFrozen == [][Parsed => (ranges' = ranges \/ pc' = "done")]_vars

====
